---- MODULE Spec2Model ----
(***************************************************************************)
(* The optimisation loop of convex-splatting: train.py::training and the   *)
(* configuration it reads (arguments/__init__.py).  Real-valued options    *)
(* are kept in millionths (0.03 is 30000).                                  *)
(***************************************************************************)
EXTENDS Integers, Naturals, Sequences, FiniteSets, TLC

(* ---- bounds of the model ---- *)
\* longest run (number of iterations between the stored iteration and N)
MaxRun == 12
\* number of training views of the scene
NumViews == 3

\* primitives of an initial population whose attributes are enumerated
InitPrims == 2
\* largest population on which statistics and optimizer steps are enumerated
MaxPrims == 3
\* number of population operations in a sequence
MaxPopSteps == 4

(* ---- constants of the program ---- *)
\* train.py:157  "if iteration % 1000 == 0: only_prune"
PruneInterval == 1000
\* train.py:98   "if iteration % 1000 == 0: oneupSHdegree"
SHInterval == 1000

\* Python's None and a present value
None == << >>
Some(v) == << v >>

(* ---- inputs ---- *)
\* iteration numbers stored in a checkpoint
StartIters == {9494, 9994}
\* N - k for a run started from stored iteration k
RunLengths == {-1, 0, 6, MaxRun}
DensifyFromIters == {3, 9997}
DensifyUntilIters == {9998, 10002}
DensificationIntervals == {2, 3}
OpacityResetIntervals == {3, 4}
ResetOpacityUntils == {9000, 10003}
\* --save_iterations as given by the user
SaveLists == {{}, {4, 9998, 10000}}

\* OptimizationParams.__init__: the defaults (the later assignment wins)
DefaultOpt ==
  [ iterations              |-> 30000,
    densification_interval  |-> 200,
    densify_from_iter       |-> 500,
    densify_until_iter      |-> 9000,
    densify_grad_threshold  |-> 25,
    reset_opacity_until     |-> 9000,
    opacity_reset           |-> 200000,
    opacity_reset_interval  |-> 3000,
    remove_size_threshold   |-> 300000,
    min_opacity             |-> 30000,
    mask_threshold          |-> 10000,
    lr_sigma                |-> 4500,
    lr_convex_points_init   |-> 500,
    lr_convex_points_final  |-> 5,
    set_sigma               |-> 950,
    sigma_scaling_cloning   |-> 880000,
    scaling_cloning         |-> 630000,
    reset_opacity_unil      |-> 5000 ]

\* adapt(opt, light, outdoor)
adaptResetUntil(o, light, outdoor) ==
  LET o1 == IF ~light /\ outdoor
            THEN [o EXCEPT !.set_sigma = 1000,
                           !.densify_grad_threshold = 1,
                           !.lr_sigma = 4000,
                           !.reset_opacity_until = 18000,
                           !.scaling_cloning = 600000]
            ELSE o
  IN  IF ~light /\ ~outdoor
      THEN [o1 EXCEPT !.sigma_scaling_cloning = 850000,
                      !.set_sigma = 900,
                      !.densify_grad_threshold = 6,
                      !.mask_threshold = 20000,
                      !.scaling_cloning = 700000,
                      !.lr_convex_points_init = 400,
                      !.lr_convex_points_final = 4,
                      !.densify_until_iter = 9500]
      ELSE o1
adapt(o, light, outdoor) ==
  LET o1 == IF ~light /\ outdoor
            THEN [o EXCEPT !.set_sigma = 1000,
                           !.densify_grad_threshold = 1,
                           !.lr_sigma = 4000,
                           !.reset_opacity_unil = 18000,
                           !.scaling_cloning = 600000]
            ELSE o
  IN  IF ~light /\ ~outdoor
      THEN [o1 EXCEPT !.sigma_scaling_cloning = 850000,
                      !.set_sigma = 900,
                      !.densify_grad_threshold = 6,
                      !.mask_threshold = 20000,
                      !.scaling_cloning = 700000,
                      !.lr_convex_points_init = 400,
                      !.lr_convex_points_final = 4,
                      !.densify_until_iter = 9500]
      ELSE o1

\* scene.getTrainCameras(): the list of training views
TrainCameras == [i \in 1..NumViews |-> i]

\* list.pop(idx): the list without its idx-th element (1-based here)
PopAt(s, idx) == [j \in 1..(Len(s) - 1) |-> IF j < idx THEN s[j] ELSE s[j + 1]]

\* "if not viewpoint_stack: viewpoint_stack = scene.getTrainCameras().copy()"
RefillMut(stack) == IF Len(stack) <= 1 THEN TrainCameras ELSE stack
Refill(stack) == IF stack = << >> THEN TrainCameras ELSE stack

\* paths that may be given as --start_checkpoint: none, the empty string,
\* a checkpoint file, a path that names no loadable file
CheckpointPaths == {None, Some(""), Some("chkpnt.pth"), Some("missing.pth")}

\* "if checkpoint:", the truth value of the path
TruthyNotNone(path) == path # None
Truthy(path) == path # None /\ path # Some("")

\* "for iteration in range(first_iter, opt.iterations + 1)"
ForRangeSkipFirst(first, n) == (first + 1)..n
ForRangeStopEarly(first, n) == first..(n - 1)
ForRange(first, n) == first..n

\* "if iteration < opt.densify_until_iter"
GrowthPhaseNotEqual(it, o) == it # o.densify_until_iter
GrowthPhase(it, o) == it < o.densify_until_iter

\* "if iteration > opt.densify_from_iter and
\*     iteration % opt.densification_interval == 0"
DensifyDueMut(it, o) ==
  it > o.densify_from_iter /\ it % o.opacity_reset_interval = 0
DensifyDue(it, o) ==
  it > o.densify_from_iter /\ it % o.densification_interval = 0

\* "opt.remove_size_threshold if iteration > opt.opacity_reset_interval else None"
SizeThresholdMut(it, o) ==
  IF it >= o.opacity_reset_interval THEN Some(o.remove_size_threshold) ELSE None
SizeThreshold(it, o) ==
  IF it > o.opacity_reset_interval THEN Some(o.remove_size_threshold) ELSE None

\* "iteration % opt.opacity_reset_interval == 0 or
\*  (dataset.white_background and iteration == opt.densify_from_iter)"
GrowthResetDueMut(it, o, wb) ==
  it % o.opacity_reset_interval = 0 \/ it = o.densify_from_iter
GrowthResetDue(it, o, wb) ==
  it % o.opacity_reset_interval = 0 \/ (wb /\ it = o.densify_from_iter)

\* "if iteration % 1000 == 0" of the post-growth branch
PruneDueMut(it) == it % 100 = 0
PruneDue(it) == it % PruneInterval = 0

\* "iteration % opt.opacity_reset_interval == 0 and
\*  iteration < opt.reset_opacity_until"
PostResetDueNoCutoff(it, o) == it % o.opacity_reset_interval = 0
PostResetDueMut(it, o) ==
  it % o.opacity_reset_interval = 0 /\ it < o.reset_opacity_unil
PostResetDue(it, o) ==
  it % o.opacity_reset_interval = 0 /\ it < o.reset_opacity_until

\* an entry of the log of operations
Call(op, args) == [op |-> op, args |-> args]

\* the calls of the growth-phase branch, in program order (train.py:144-155)
GrowthCallsResetFirst(it, o, wb) ==
  << Call("max_radii2D", << >>), Call("add_densification_stats", << >>) >>
  \o (IF GrowthResetDue(it, o, wb)
      THEN << Call("reset_opacity", << o.opacity_reset >>) >> ELSE << >>)
  \o (IF DensifyDue(it, o)
      THEN << Call("densify_and_prune",
                   << o.min_opacity, o.mask_threshold, "cameras_extent",
                      SizeThreshold(it, o) >>) >>
      ELSE << >>)
GrowthCalls(it, o, wb) ==
  << Call("max_radii2D", << >>), Call("add_densification_stats", << >>) >>
  \o (IF DensifyDue(it, o)
      THEN << Call("densify_and_prune",
                   << o.min_opacity, o.mask_threshold, "cameras_extent",
                      SizeThreshold(it, o) >>) >>
      ELSE << >>)
  \o (IF GrowthResetDue(it, o, wb)
      THEN << Call("reset_opacity", << o.opacity_reset >>) >> ELSE << >>)

\* whether the population can be empty after densify_and_prune or only_prune:
\* nothing guards against a prune mask that covers every primitive, and an
\* empty population has nothing to clone or split
PruneOutcomes(empty) == IF empty THEN {TRUE} ELSE {FALSE, TRUE}

\* "if iteration < opt.iterations" guarding the optimizer step
OptimizerDueMut(it, o) == it <= o.iterations
OptimizerDue(it, o) == it < o.iterations

(* ---- the primitive population (scene.ConvexModel, described in spec    ---- *)
(* ---- sections 3, 4.2 and 4.3): parallel per-primitive arrays; every    ---- *)
(* ---- entry carries the identity of its primitive next to its value     ---- *)
\* children a split primitive is replaced by (spec section 8, scenario)
SplitChildren == 2

\* the per-primitive arrays
PopFields == {"xyz", "shape", "opacity", "mask", "features", "exp_avg",
              "grad_accum", "denom", "max_radii2D"}
\* the GradientStatistics arrays, zeroed after every mutation
StatFields == {"grad_accum", "denom", "max_radii2D"}

Size(c) == Len(c["xyz"])

\* a tensor indexed by a boolean mask: the entries at the indices in keep
FilterAt(a, keep) ==
  LET idx == SelectSeq([i \in 1..Len(a) |-> i], LAMBDA i : i \in keep) IN
    [k \in 1..Len(idx) |-> a[idx[k]]]

\* the indices of a mask in increasing order
MaskIndices(n, m) == FilterAt([i \in 1..n |-> i], m)

\* removal of the masked primitives from every per-primitive array and from
\* the optimizer state
PruneArraysKeepMomentum(c, m) ==
  [f \in PopFields |->
     IF f = "exp_avg" THEN c[f] ELSE FilterAt(c[f], (1..Size(c)) \ m)]
PruneArrays(c, m) ==
  [f \in PopFields |-> FilterAt(c[f], (1..Size(c)) \ m)]

\* the value a new child holds in an array: statistics and optimizer
\* momentum start at zero, a split child is smaller than its parent
ChildValue(f, v, kind) ==
  IF f \in StatFields \cup {"exp_avg"} THEN 0
  ELSE IF f = "shape" /\ kind = "split" THEN "small"
  ELSE v

\* nchild children of every masked primitive appended to every array
AppendChildren(c, m, nchild, kind, firstId) ==
  LET parents == MaskIndices(Size(c), m)
      total == Len(parents) * nchild
  IN  [f \in PopFields |->
         c[f] \o [k \in 1..total |->
                    [id |-> firstId + k - 1,
                     v  |-> ChildValue(f, c[f][parents[((k - 1) \div nchild) + 1]].v,
                                       kind)]]]

\* meanGradient(i): total gradient / visit count, zero without a visit
MeanGradient(c, i) ==
  IF c["denom"][i].v = 0 THEN 0
  ELSE c["grad_accum"][i].v \div c["denom"][i].v

\* primitives whose mean gradient exceeds the threshold: cloned when small,
\* split when their extent is large
CloneMask(c, o) ==
  {i \in 1..Size(c) : MeanGradient(c, i) > o.densify_grad_threshold
                        /\ c["shape"][i].v = "small"}
SplitMask(c, o) ==
  {i \in 1..Size(c) : MeanGradient(c, i) > o.densify_grad_threshold
                        /\ c["shape"][i].v = "big"}

\* the prune mask: low opacity, low mask, or (with a size threshold) a
\* projected size above it
PruneMask(c, min_opacity, mask_threshold, size_threshold) ==
  {i \in 1..Size(c) :
     \/ c["opacity"][i].v < min_opacity
     \/ c["mask"][i].v < mask_threshold
     \/ (size_threshold # None /\ c["max_radii2D"][i].v > size_threshold[1])}

\* StatisticsAccumulator.reset
ResetStats(c) ==
  [f \in PopFields |->
     IF f \in StatFields THEN [i \in 1..Len(c[f]) |-> [id |-> c[f][i].id, v |-> 0]]
     ELSE c[f]]

\* the population after the clone and split steps
CloneAndSplitKeepParents(c, o, firstId) ==
  LET cm == CloneMask(c, o)
      sm == SplitMask(c, o)
      c1 == AppendChildren(c, cm, 1, "clone", firstId)
  IN  AppendChildren(c1, sm, SplitChildren, "split", firstId + Cardinality(cm))
CloneAndSplit(c, o, firstId) ==
  LET cm == CloneMask(c, o)
      sm == SplitMask(c, o)
      c1 == AppendChildren(c, cm, 1, "clone", firstId)
      c2 == AppendChildren(c1, sm, SplitChildren, "split", firstId + Cardinality(cm))
  IN  PruneArrays(c2, sm)

\* densify_and_prune(min_opacity, mask_threshold, extent, size_threshold)
DensifyAndPrune(c, o, size_threshold, firstId) ==
  LET c3 == CloneAndSplit(c, o, firstId)
      pm == PruneMask(c3, o.min_opacity, o.mask_threshold, size_threshold)
  IN  ResetStats(PruneArrays(c3, pm))

\* only_prune(min_opacity, mask_threshold)
OnlyPrune(c, o) ==
  ResetStats(PruneArrays(c, PruneMask(c, o.min_opacity, o.mask_threshold, None)))

\* reset_opacity(ceiling): every opacity capped to the ceiling
ResetOpacity(c, ceiling) ==
  [c EXCEPT !["opacity"] =
     [i \in 1..Size(c) |->
        [id |-> c["opacity"][i].id,
         v  |-> IF c["opacity"][i].v > ceiling THEN ceiling
                ELSE c["opacity"][i].v]]]

\* a population from the attributes of its primitives, identities 1..n
Population(attrs) ==
  [f \in PopFields |->
     [i \in 1..Len(attrs) |-> [id |-> i, v |-> attrs[i][f]]]]

\* attributes of one primitive
Prim(shape, opacity, mask, accum, denom) ==
  [xyz |-> 0, shape |-> shape, opacity |-> opacity, mask |-> mask,
   features |-> 0, exp_avg |-> 1, grad_accum |-> accum, denom |-> denom,
   max_radii2D |-> 0]

\* spec section 8: 100 primitives, 10 above the gradient threshold of which
\* 5 are small and 5 large, 3 others with low opacity
Scenario100 ==
  Population([i \in 1..100 |->
     IF i <= 5 THEN Prim("small", 500000, 100000, 100, 1)
     ELSE IF i <= 10 THEN Prim("big", 500000, 100000, 100, 1)
     ELSE IF i <= 13 THEN Prim("small", 10000, 100000, 0, 0)
     ELSE Prim("small", 500000, 100000, 0, 0)])

\* small initial populations of healthy, transparent and masked-out
\* primitives
InitialPopulations ==
  {Population(a) :
     a \in UNION {[1..n -> {Prim("small", 500000, 100000, 0, 0),
                            Prim("big", 500000, 100000, 0, 0),
                            Prim("small", 10000, 100000, 0, 0),
                            Prim("big", 500000, 5000, 0, 0)}] : n \in 1..InitPrims}}

(* ---- arguments/__init__.py: the command line and the stored record ---- *)
\* keys declared by the parameter groups that are modelled
ArgKeys == {"model_path", "sh_degree", "debug"}

\* the value each group's __init__ assigns to the attribute
DeclaredDefault(key) ==
  CASE key = "model_path" -> ""
    [] key = "sh_degree"  -> "3"
    [] key = "debug"      -> "False"

\* the group that declares the key
GroupOf(key) == IF key = "debug" THEN "PipelineParams" ELSE "ModelParams"

\* fill_none of the group: ModelParams passes its sentinel on,
\* PipelineParams calls super().__init__ without it
FillNone(key, sent) == GroupOf(key) = "ModelParams" /\ sent

\* "value = value if not fill_none else None", the default of add_argument
ParserDefault(key, sent) ==
  IF FillNone(key, sent) THEN None ELSE Some(DeclaredDefault(key))

\* parser.parse_args: the supplied value, the parser default otherwise
ParseArgs(given, sent) ==
  [k \in ArgKeys |-> IF given[k] # None THEN given[k]
                     ELSE ParserDefault(k, sent)]

\* values a user can supply for a key (debug is a store_true flag)
SuppliedValues(key) ==
  CASE key = "model_path" -> {"out", "other"}
    [] key = "sh_degree"  -> {"2"}
    [] key = "debug"      -> {"True"}

\* directories that may hold a cfg_args file
CfgDirs == {"", "out"}

\* the value a stored record holds for a key
StoredValue(key) ==
  CASE key = "model_path" -> "out"
    [] key = "sh_degree"  -> "1"
    [] key = "debug"      -> "True"

\* texts of a cfg_args file: Namespace(k=v, ...) as its set of k=v pairs
CfgTexts == {{<< k, StoredValue(k) >> : k \in D} : D \in SUBSET ArgKeys}

\* eval(cfgfile_string): the namespace the text denotes
EvalNamespace(text) ==
  [k \in {p[1] : p \in text} |-> (CHOOSE p \in text : p[1] = k)[2]]

\* the exception "except TypeError" lets through, or None
\*   os.path.join(None, "cfg_args") raises TypeError, which is caught;
\*   open() of a missing file raises FileNotFoundError, which is not
LoadEscapes(path, files) ==
  IF path = None THEN None
  ELSE IF path[1] \in DOMAIN files /\ files[path[1]] # None THEN None
  ELSE Some("FileNotFoundError")

\* the text get_combined_args evaluates
LoadedText(path, files) ==
  IF path # None /\ path[1] \in DOMAIN files /\ files[path[1]] # None
  THEN files[path[1]][1]
  ELSE {}

\* "merged_dict = vars(args_cfgfile).copy();
\*  for k, v in vars(args_cmdline).items(): if v != None: merged_dict[k] = v"
MergeNoTest(cfg, cmd) ==
  [k \in DOMAIN cfg \cup DOMAIN cmd |->
     IF k \in DOMAIN cmd THEN (IF cmd[k] = None THEN "None" ELSE cmd[k][1])
     ELSE cfg[k]]
Merge(cfg, cmd) ==
  [k \in DOMAIN cfg \cup {c \in DOMAIN cmd : cmd[c] # None} |->
     IF k \in DOMAIN cmd /\ cmd[k] # None THEN cmd[k][1] ELSE cfg[k]]


VARIABLES
  pc,               \* position of training()
  opt,              \* the optimisation parameters
  light, outdoor,   \* the domain toggles
  white_background, \* dataset.white_background
  save_iterations,  \* iterations at which the scene is saved
  checkpoint_path,  \* the checkpoint argument of training(): a path or None
  checkpoint,       \* the iteration stored in the file the path names,
                    \* None when the path names no loadable file
  restored,         \* convexes.restore has been called
  empty_population, \* the population holds no primitive
  first_iter,
  iteration,
  viewpoint_stack,
  viewpoint_cam,
  grads,            \* TRUE while gradients of a backward pass are held
  pop_version,      \* number of mutations applied to the primitives
  saved,            \* saved[i]: pop_version written by scene.save(i)
  calls,            \* operations of the current iteration, in order
  executed,         \* number of iterations entered
  pass_selected,    \* views selected in the current pass of NumViews
  white_resets,     \* resets at densify_from_iter under a white background
  begin_version,    \* pop_version when the current iteration began
  last_phase,       \* branch of the last population step: "growth", "post"
  phase_changes,    \* times the branch differed from the one before
  only_pruned,      \* only_prune has been invoked in this run
  \* get_combined_args
  gca_pc,           \* position of get_combined_args
  sentinel,         \* the sentinel ModelParams was constructed with
  supplied,         \* per key: the value given on the command line, or None
  cfg_files,        \* per directory: the text of its cfg_args file, or None
  args_cmdline,
  cfgfile_string,
  merged,           \* the returned namespace
  gca_error,        \* the exception that left get_combined_args, or None
  \* the primitive population
  pop_pc,           \* "run" while population operations are applied
  convexes,         \* the per-primitive arrays
  next_id,          \* identity of the next new primitive
  pop_steps,        \* operations applied so far
  densify_report    \* sizes and counts of the last densify_and_prune, or None

vars == << pc, opt, light, outdoor, white_background, save_iterations,
           checkpoint_path, checkpoint, restored, empty_population,
           first_iter, iteration, viewpoint_stack, viewpoint_cam,
           grads, pop_version, saved, calls, executed, pass_selected,
           white_resets, begin_version, last_phase, phase_changes,
           only_pruned,
           gca_pc, sentinel, supplied, cfg_files, args_cmdline,
           cfgfile_string, merged, gca_error,
           pop_pc, convexes, next_id, pop_steps, densify_report >>

popVars == << pop_pc, convexes, next_id, pop_steps, densify_report >>

argsVars == << gca_pc, sentinel, supplied, cfg_files, args_cmdline,
               cfgfile_string, merged, gca_error >>

\* the variables of training()
trainVars == << pc, opt, light, outdoor, white_background, save_iterations,
                checkpoint_path, checkpoint, restored, empty_population,
           first_iter, iteration, viewpoint_stack,
                viewpoint_cam, grads, pop_version, saved, calls, executed,
                pass_selected, white_resets, begin_version, last_phase,
                phase_changes, only_pruned >>

\* what training() does not touch
others == << argsVars, popVars >>

\* get_combined_args is not running
ArgsIdle ==
  /\ gca_pc = "idle"
  /\ sentinel = FALSE
  /\ supplied = [k \in ArgKeys |-> None]
  /\ cfg_files = [d \in CfgDirs |-> None]
  /\ args_cmdline = [k \in ArgKeys |-> None]
  /\ cfgfile_string = {}
  /\ merged = << >>
  /\ gca_error = None

\* no population operations are running
PopIdle ==
  /\ pop_pc = "idle"
  /\ convexes = Population(<< >>)
  /\ next_id = 1
  /\ pop_steps = 0
  /\ densify_report = None

phases == << last_phase, phase_changes, only_pruned >>

config == << opt, light, outdoor, white_background, save_iterations,
            checkpoint_path, checkpoint, restored >>

\* the iteration stored in the checkpoint, 0 without one
StoredIter == IF checkpoint = None THEN 0 ELSE checkpoint[1]

Init ==
  /\ pc = "setup"
  /\ light \in BOOLEAN
  /\ outdoor \in BOOLEAN
  /\ white_background \in BOOLEAN
  /\ checkpoint_path \in CheckpointPaths
  /\ checkpoint \in IF checkpoint_path = Some("chkpnt.pth")
                    THEN {Some(k) : k \in StartIters}
                    ELSE {None}
  /\ restored = FALSE
  /\ empty_population = FALSE
  /\ \E d \in RunLengths, df \in DensifyFromIters, du \in DensifyUntilIters,
        di \in DensificationIntervals, ori \in OpacityResetIntervals,
        rou \in ResetOpacityUntils, sl \in SaveLists :
       LET n == StoredIter + d IN
       /\ n >= 0
       /\ opt = [DefaultOpt EXCEPT !.iterations = n,
                                   !.densify_from_iter = df,
                                   !.densify_until_iter = du,
                                   !.densification_interval = di,
                                   !.opacity_reset_interval = ori,
                                   !.reset_opacity_until = rou]
       \* __main__: args.save_iterations.append(args.iterations)
       /\ save_iterations = sl \cup {n}
  /\ first_iter = 0
  /\ iteration = 0
  /\ viewpoint_stack = << >>
  /\ viewpoint_cam = 0
  /\ grads = FALSE
  /\ pop_version = 0
  /\ saved = << >>
  /\ calls = << >>
  /\ executed = 0
  /\ pass_selected = {}
  /\ white_resets = 0
  /\ begin_version = 0
  /\ last_phase = "none"
  /\ phase_changes = 0
  /\ only_pruned = FALSE
  /\ ArgsIdle
  /\ PopIdle

\* train.py:67-89
Setup ==
  /\ pc = "setup"
  /\ opt' = adapt(opt, light, outdoor)
  /\ IF Truthy(checkpoint_path)
     THEN IF checkpoint # None
          THEN \* (model_params, first_iter) = torch.load(checkpoint)
               /\ first_iter' = checkpoint[1] + 1
               /\ restored' = TRUE
               /\ pc' = "for"
          ELSE \* torch.load raises, nothing catches it
               /\ pc' = "failed"
               /\ UNCHANGED << first_iter, restored >>
     ELSE /\ first_iter' = 0 + 1
          /\ pc' = "for"
          /\ UNCHANGED restored
  /\ viewpoint_stack' = << >>
  /\ UNCHANGED << others, phases, light, outdoor, white_background, save_iterations,
                  checkpoint_path, checkpoint, empty_population,
                  iteration, viewpoint_cam, grads, pop_version, saved, calls,
                  executed, pass_selected, white_resets, begin_version >>

\* train.py:91, the for statement: the next element of the range in
\* increasing order, or the end of the loop when none is left
ForNext ==
  /\ pc = "for"
  /\ LET remaining == {j \in ForRange(first_iter, opt.iterations) :
                         executed = 0 \/ j > iteration}
     IN
       IF remaining # {}
       THEN /\ iteration' = CHOOSE j \in remaining : \A m \in remaining : j <= m
            /\ executed' = executed + 1
            /\ calls' = << >>
            /\ begin_version' = pop_version
            /\ pc' = "update_lr"
       ELSE /\ pc' = "done"
            /\ UNCHANGED << iteration, executed, calls, begin_version >>
  /\ UNCHANGED << others, phases, config, empty_population, first_iter, viewpoint_stack, viewpoint_cam, grads,
                  pop_version, saved, pass_selected, white_resets >>

\* train.py:95-99
UpdateLearningRate ==
  /\ pc = "update_lr"
  /\ calls' = calls \o << Call("update_learning_rate", << iteration >>) >>
                \o (IF iteration % SHInterval = 0
                    THEN << Call("oneupSHdegree", << >>) >> ELSE << >>)
  /\ pc' = "select_view"
  /\ UNCHANGED << others, phases, config, empty_population, first_iter, iteration, viewpoint_stack, viewpoint_cam,
                  grads, pop_version, saved, executed, pass_selected,
                  white_resets, begin_version >>

\* train.py:101-103
SelectView ==
  /\ pc = "select_view"
  /\ LET stack == Refill(viewpoint_stack) IN
       \E idx \in 1..Len(stack) :
         /\ viewpoint_cam' = stack[idx]
         /\ viewpoint_stack' = PopAt(stack, idx)
         /\ pass_selected' = IF (executed - 1) % NumViews = 0
                             THEN {stack[idx]}
                             ELSE pass_selected \cup {stack[idx]}
         /\ calls' = calls
              \o (IF stack # viewpoint_stack
                  THEN << Call("getTrainCameras", << >>) >> ELSE << >>)
              \o << Call("pop", << stack[idx] >>) >>
  /\ pc' = "render"
  /\ UNCHANGED << others, phases, config, empty_population, first_iter, iteration, grads, pop_version, saved,
                  executed, white_resets, begin_version >>

\* train.py:105-119
RenderBackward ==
  /\ pc = "render"
  /\ grads' = TRUE
  /\ calls' = calls \o << Call("render", << viewpoint_cam >>),
                          Call("backward", << >>) >>
  /\ pc' = "log_save"
  /\ UNCHANGED << others, phases, config, empty_population, first_iter, iteration, viewpoint_stack, viewpoint_cam,
                  pop_version, saved, executed, pass_selected, white_resets,
                  begin_version >>

\* train.py:136-141
LogAndSave ==
  /\ pc = "log_save"
  /\ IF iteration \in save_iterations
     THEN /\ saved' = Append(saved, [iteration |-> iteration,
                                     version |-> pop_version])
          /\ calls' = calls \o << Call("training_report", << iteration >>),
                                  Call("save", << iteration >>) >>
     ELSE /\ saved' = saved
          /\ calls' = Append(calls, Call("training_report", << iteration >>))
  /\ pc' = "population"
  /\ UNCHANGED << others, phases, config, empty_population, first_iter, iteration, viewpoint_stack, viewpoint_cam,
                  grads, pop_version, executed, pass_selected, white_resets,
                  begin_version >>

\* train.py:143-155, the branch "iteration < opt.densify_until_iter"
GrowthStep ==
  /\ pc = "population"
  /\ GrowthPhase(iteration, opt)
  /\ LET dens  == DensifyDue(iteration, opt)
         reset == GrowthResetDue(iteration, opt, white_background)
     IN
       /\ calls' = calls \o GrowthCalls(iteration, opt, white_background)
       /\ pop_version' = pop_version + (IF dens THEN 1 ELSE 0)
                                     + (IF reset THEN 1 ELSE 0)
       /\ IF dens
          THEN empty_population' \in PruneOutcomes(empty_population)
          ELSE UNCHANGED empty_population
       /\ white_resets' =
            IF reset /\ white_background /\ iteration = opt.densify_from_iter
            THEN white_resets + 1 ELSE white_resets
  /\ last_phase' = "growth"
  /\ phase_changes' = IF last_phase = "post" THEN phase_changes + 1
                      ELSE phase_changes
  /\ UNCHANGED only_pruned
  /\ pc' = "optimizer"
  /\ UNCHANGED << others, config, first_iter, iteration, viewpoint_stack,
                  viewpoint_cam, grads, saved, executed, pass_selected,
                  begin_version >>

\* train.py:156-161, the else branch
PostGrowthStep ==
  /\ pc = "population"
  /\ ~GrowthPhase(iteration, opt)
  /\ LET prune == PruneDue(iteration)
         reset == PostResetDue(iteration, opt)
     IN
       /\ calls' = calls
            \o (IF prune
                THEN << Call("only_prune",
                             << opt.min_opacity, opt.mask_threshold >>) >>
                ELSE << >>)
            \o (IF reset
                THEN << Call("reset_opacity", << opt.opacity_reset >>) >>
                ELSE << >>)
       /\ pop_version' = pop_version + (IF prune THEN 1 ELSE 0)
                                     + (IF reset THEN 1 ELSE 0)
       /\ IF prune
          THEN empty_population' \in PruneOutcomes(empty_population)
          ELSE UNCHANGED empty_population
       /\ only_pruned' = (only_pruned \/ prune)
  /\ last_phase' = "post"
  /\ phase_changes' = IF last_phase = "growth" THEN phase_changes + 1
                      ELSE phase_changes
  /\ pc' = "optimizer"
  /\ UNCHANGED << others, config, first_iter, iteration, viewpoint_stack,
                  viewpoint_cam, grads, saved, executed, pass_selected,
                  white_resets, begin_version >>

\* train.py:163-166
OptimizerStep ==
  /\ pc = "optimizer"
  /\ IF OptimizerDue(iteration, opt)
     THEN /\ calls' = calls \o << Call("optimizer.step", << grads >>),
                                  Call("optimizer.zero_grad", << >>) >>
          /\ pop_version' = pop_version + 1
          /\ grads' = FALSE
     ELSE UNCHANGED << calls, pop_version, grads >>
  /\ pc' = "for"
  /\ UNCHANGED << others, phases, config, empty_population, first_iter, iteration, viewpoint_stack, viewpoint_cam,
                  saved, executed, pass_selected, white_resets, begin_version >>


(***************************************************************************)
(* get_combined_args (arguments/__init__.py:147-167)                       *)
(***************************************************************************)

\* training() is not running
TrainIdle ==
  /\ pc = "idle"
  /\ opt = DefaultOpt
  /\ light = FALSE
  /\ outdoor = FALSE
  /\ white_background = FALSE
  /\ save_iterations = {}
  /\ checkpoint_path = None
  /\ checkpoint = None
  /\ restored = FALSE
  /\ empty_population = FALSE
  /\ first_iter = 0
  /\ iteration = 0
  /\ viewpoint_stack = << >>
  /\ viewpoint_cam = 0
  /\ grads = FALSE
  /\ pop_version = 0
  /\ saved = << >>
  /\ calls = << >>
  /\ executed = 0
  /\ pass_selected = {}
  /\ white_resets = 0
  /\ begin_version = 0
  /\ last_phase = "none"
  /\ phase_changes = 0
  /\ only_pruned = FALSE

InitArgs ==
  /\ TrainIdle
  /\ PopIdle
  /\ gca_pc = "parse"
  /\ sentinel \in BOOLEAN
  /\ supplied \in {f \in [ArgKeys -> {None} \cup {Some(v) : v \in
                                       UNION {SuppliedValues(k) : k \in ArgKeys}}] :
                     \A k \in ArgKeys :
                       f[k] # None => f[k][1] \in SuppliedValues(k)}
  /\ cfg_files \in [CfgDirs -> {None} \cup {Some(t) : t \in CfgTexts}]
  /\ args_cmdline = [k \in ArgKeys |-> None]
  /\ cfgfile_string = {}
  /\ merged = << >>
  /\ gca_error = None

\* arguments/__init__.py:148-150
GcaParse ==
  /\ gca_pc = "parse"
  /\ cfgfile_string' = {}
  /\ args_cmdline' = ParseArgs(supplied, sentinel)
  /\ gca_pc' = "try"
  /\ UNCHANGED << trainVars, popVars, sentinel, supplied, cfg_files, merged, gca_error >>

\* arguments/__init__.py:152-160, the try statement
GcaLoad ==
  /\ gca_pc = "try"
  /\ LET raised == LoadEscapes(args_cmdline["model_path"], cfg_files) IN
       IF raised = None
       THEN /\ cfgfile_string' = LoadedText(args_cmdline["model_path"], cfg_files)
            /\ gca_pc' = "eval"
            /\ UNCHANGED gca_error
       ELSE /\ gca_error' = raised
            /\ gca_pc' = "raised"
            /\ UNCHANGED cfgfile_string
  /\ UNCHANGED << trainVars, popVars, sentinel, supplied, cfg_files, args_cmdline, merged >>

\* arguments/__init__.py:161-167
GcaMerge ==
  /\ gca_pc = "eval"
  /\ merged' = Merge(EvalNamespace(cfgfile_string), args_cmdline)
  /\ gca_pc' = "returned"
  /\ UNCHANGED << trainVars, popVars, sentinel, supplied, cfg_files, args_cmdline,
                  cfgfile_string, gca_error >>

NextArgs ==
  \/ GcaParse
  \/ GcaLoad
  \/ GcaMerge

SpecArgs == InitArgs /\ [][NextArgs]_vars


(***************************************************************************)
(* The population operations the loop dispatches (train.py:143-166)        *)
(***************************************************************************)

InitPop ==
  /\ TrainIdle
  /\ ArgsIdle
  /\ pop_pc = "run"
  /\ convexes \in InitialPopulations \cup {Scenario100}
  /\ next_id = Size(convexes) + 1
  /\ pop_steps = 0
  /\ densify_report = None

\* train.py:144-145: statistics of the visible primitives
PopAddStats ==
  /\ pop_pc = "run"
  /\ pop_steps < MaxPopSteps
  /\ Size(convexes) <= MaxPrims
  /\ \E vis \in SUBSET (1..Size(convexes)) :
       /\ vis # {}
       /\ convexes' =
            [f \in PopFields |->
               [i \in 1..Size(convexes) |->
                  [id |-> convexes[f][i].id,
                   v  |-> IF i \notin vis THEN convexes[f][i].v
                          ELSE IF f = "grad_accum" THEN convexes[f][i].v + 100
                          ELSE IF f = "denom" THEN convexes[f][i].v + 1
                          ELSE IF f = "max_radii2D"
                          THEN (IF convexes["shape"][i].v = "big"
                                THEN 400000 ELSE 100000)
                          ELSE convexes[f][i].v]]]
  /\ pop_steps' = pop_steps + 1
  /\ UNCHANGED << trainVars, argsVars, pop_pc, next_id, densify_report >>

\* train.py:149-151
PopDensifyAndPrune ==
  /\ pop_pc = "run"
  /\ pop_steps < MaxPopSteps
  /\ \E st \in {None, Some(opt.remove_size_threshold)} :
       LET c3 == CloneAndSplit(convexes, opt, next_id)
           pm == PruneMask(c3, opt.min_opacity, opt.mask_threshold, st)
           nc == Cardinality(CloneMask(convexes, opt))
           ns == Cardinality(SplitMask(convexes, opt))
       IN
         /\ convexes' = DensifyAndPrune(convexes, opt, st, next_id)
         /\ next_id' = next_id + nc + ns * SplitChildren
         /\ densify_report' =
              Some([sizeBefore |-> Size(convexes),
                    clones |-> nc,
                    splitChildren |-> ns * SplitChildren,
                    splitParentsRemoved |-> ns,
                    prunedCount |-> Cardinality(pm),
                    sizeAfter |-> Size(DensifyAndPrune(convexes, opt, st, next_id))])
  /\ pop_steps' = pop_steps + 1
  /\ UNCHANGED << trainVars, argsVars, pop_pc >>

\* train.py:157-158
PopOnlyPrune ==
  /\ pop_pc = "run"
  /\ pop_steps < MaxPopSteps
  /\ convexes' = OnlyPrune(convexes, opt)
  /\ pop_steps' = pop_steps + 1
  /\ UNCHANGED << trainVars, argsVars, pop_pc, next_id, densify_report >>

\* train.py:154-155 and 160-161
PopResetOpacity ==
  /\ pop_pc = "run"
  /\ pop_steps < MaxPopSteps
  /\ convexes' = ResetOpacity(convexes, opt.opacity_reset)
  /\ pop_steps' = pop_steps + 1
  /\ UNCHANGED << trainVars, argsVars, pop_pc, next_id, densify_report >>

\* train.py:164-166: a step moves a primitive's opacity and leaves momentum
PopOptimizerStep ==
  /\ pop_pc = "run"
  /\ pop_steps < MaxPopSteps
  /\ Size(convexes) <= MaxPrims
  /\ \E i \in 1..Size(convexes), op \in {10000, 900000} :
       convexes' =
         [convexes EXCEPT !["opacity"][i].v = op, !["exp_avg"][i].v = 1]
  /\ pop_steps' = pop_steps + 1
  /\ UNCHANGED << trainVars, argsVars, pop_pc, next_id, densify_report >>

NextPop ==
  \/ PopAddStats
  \/ PopDensifyAndPrune
  \/ PopOnlyPrune
  \/ PopResetOpacity
  \/ PopOptimizerStep

SpecPop == InitPop /\ [][NextPop]_vars

Next ==
  \/ Setup
  \/ ForNext
  \/ UpdateLearningRate
  \/ SelectView
  \/ RenderBackward
  \/ LogAndSave
  \/ GrowthStep
  \/ PostGrowthStep
  \/ OptimizerStep

Spec == Init /\ [][Next]_vars

\* the loop is a single thread that always takes its next step
FairSpec == Spec /\ WF_vars(Next)

(***************************************************************************)
(* Properties                                                              *)
(***************************************************************************)

HasCall(op) == \E i \in DOMAIN calls : calls[i].op = op
CallCount(op) == Cardinality({i \in DOMAIN calls : calls[i].op = op})
PopulationOps == {"densify_and_prune", "only_prune", "reset_opacity"}
\* the body of the current iteration has run to its end
IterationFinished == pc = "for" /\ executed > 0
\* the population-control step of the current iteration has run
PopulationDone == pc = "optimizer"

\* C1: a run started from stored iteration k (0 without a checkpoint) enters
\* k+1 first and then k+2, ..., N in increasing order, none skipped or
\* repeated: the j-th iteration entered is k+j, and the loop ends at N.
C1_ResumeOrder ==
  /\ executed > 0 => /\ iteration = StoredIter + executed
                     /\ iteration <= opt.iterations
  /\ (pc = "done" /\ StoredIter < opt.iterations) => iteration = opt.iterations

C1_Witness ==
  /\ checkpoint # None
  /\ StoredIter < opt.iterations
  /\ pc = "update_lr"
  /\ executed = 3
  /\ iteration = StoredIter + 3

\* C2 as stated: every executed iteration ends with an optimizer step that
\* follows the population-control step, and with the gradients cleared.
C2_Original ==
  IterationFinished =>
    /\ HasCall("optimizer.step")
    /\ grads = FALSE

\* C2 amended: every executed iteration before N applies the optimizer step,
\* with the gradients of that iteration, after its population-control step
\* and then clears the gradients; iteration N applies no optimizer step and
\* keeps its gradients.
C2_OptimizerStep ==
  IterationFinished =>
    IF iteration < opt.iterations
    THEN /\ Len(calls) >= 2
         /\ calls[Len(calls) - 1] = Call("optimizer.step", << TRUE >>)
         /\ calls[Len(calls)] = Call("optimizer.zero_grad", << >>)
         /\ \A i \in 1..(Len(calls) - 2) :
              calls[i].op \notin {"optimizer.step", "optimizer.zero_grad"}
         /\ grads = FALSE
    ELSE /\ ~HasCall("optimizer.step")
         /\ ~HasCall("optimizer.zero_grad")
         /\ grads = TRUE

C2_Witness ==
  /\ IterationFinished
  /\ iteration < opt.iterations
  /\ HasCall("densify_and_prune")
  /\ HasCall("reset_opacity")
  /\ HasCall("optimizer.step")

\* C3 as stated: in the growth phase densify_and_prune runs at every
\* iteration that is a multiple of densification_interval.
C3_Original ==
  (PopulationDone /\ iteration < opt.densify_until_iter
     /\ iteration % opt.densification_interval = 0)
    => HasCall("densify_and_prune")

\* C3 amended: in the growth phase densify_and_prune runs at every iteration
\* that is a multiple of densification_interval and is greater than
\* densify_from_iter.
C3_DensifyCadence ==
  (PopulationDone /\ iteration < opt.densify_until_iter
     /\ iteration % opt.densification_interval = 0
     /\ iteration > opt.densify_from_iter)
    => CallCount("densify_and_prune") = 1

C3_Witness ==
  /\ PopulationDone
  /\ iteration < opt.densify_until_iter
  /\ iteration % opt.densification_interval = 0
  /\ iteration > opt.densify_from_iter
  /\ iteration % opt.opacity_reset_interval # 0
  /\ HasCall("densify_and_prune")

\* C4: in the growth phase reset_opacity(opacity_reset) runs at iteration i
\* exactly when i is a multiple of opacity_reset_interval, or the background
\* is white and i = densify_from_iter; the white-background reset happens at
\* most once per run, and exactly once when iteration densify_from_iter has
\* been executed in the growth phase.
C4_GrowthReset ==
  /\ (PopulationDone /\ iteration < opt.densify_until_iter) =>
       /\ HasCall("reset_opacity") <=>
            \/ iteration % opt.opacity_reset_interval = 0
            \/ (white_background /\ iteration = opt.densify_from_iter)
       /\ CallCount("reset_opacity") <= 1
       /\ \A i \in DOMAIN calls :
            calls[i].op = "reset_opacity" => calls[i].args = << opt.opacity_reset >>
  /\ white_resets <= 1
  /\ ~white_background => white_resets = 0
  /\ (/\ white_background
      /\ pc \in {"optimizer", "for", "done"}
      /\ executed > 0
      /\ StoredIter < opt.densify_from_iter
      /\ opt.densify_from_iter <= iteration
      /\ opt.densify_from_iter < opt.densify_until_iter) => white_resets = 1

C4_Witness ==
  /\ PopulationDone
  /\ white_background
  /\ iteration < opt.densify_until_iter
  /\ iteration = opt.densify_from_iter
  /\ iteration % opt.opacity_reset_interval # 0
  /\ HasCall("reset_opacity")
  /\ white_resets = 1

\* C5: after the growth phase reset_opacity runs at every iteration that is a
\* multiple of opacity_reset_interval and earlier than reset_opacity_until,
\* and at no iteration at or after reset_opacity_until.
C5_PostGrowthReset ==
  (PopulationDone /\ iteration >= opt.densify_until_iter) =>
    /\ (iteration % opt.opacity_reset_interval = 0
          /\ iteration < opt.reset_opacity_until)
         => CallCount("reset_opacity") = 1
    /\ iteration >= opt.reset_opacity_until => ~HasCall("reset_opacity")

C5_Witness ==
  /\ PopulationDone
  /\ iteration >= opt.densify_until_iter
  /\ iteration < opt.reset_opacity_until
  /\ HasCall("reset_opacity")

\* C6: after the growth phase only_prune(min_opacity, mask_threshold) runs at
\* every multiple of 1000 up to and including N and at no other iteration;
\* it is given no size threshold and no densify_and_prune runs with it.
C6_OnlyPrune ==
  PopulationDone =>
    /\ HasCall("only_prune") <=>
         (iteration >= opt.densify_until_iter /\ iteration % 1000 = 0)
    /\ CallCount("only_prune") <= 1
    /\ \A i \in DOMAIN calls :
         calls[i].op = "only_prune" =>
           calls[i].args = << opt.min_opacity, opt.mask_threshold >>
    /\ HasCall("only_prune") => ~HasCall("densify_and_prune")
    /\ iteration >= opt.densify_until_iter => ~HasCall("densify_and_prune")

C6_Witness ==
  /\ PopulationDone
  /\ iteration = opt.iterations
  /\ HasCall("only_prune")

\* C7: every densify_and_prune call at an iteration <= opacity_reset_interval
\* is given size_threshold None, and every call at a later iteration is given
\* remove_size_threshold.
C7_SizeThreshold ==
  \A i \in DOMAIN calls :
    calls[i].op = "densify_and_prune" =>
      calls[i].args[4] = IF iteration <= opt.opacity_reset_interval
                         THEN None
                         ELSE Some(opt.remove_size_threshold)

C7_Witness ==
  /\ PopulationDone
  /\ HasCall("densify_and_prune")
  /\ iteration = opt.opacity_reset_interval

\* C8: the view queue is refilled only when empty and every iteration removes
\* one view, so counted from the first executed iteration the run falls into
\* passes of NumViews iterations in each of which every view is selected
\* exactly once.
C8_ViewPasses ==
  pc = "render" =>
    LET pos == ((executed - 1) % NumViews) + 1 IN
    /\ Cardinality(pass_selected) = pos
    /\ viewpoint_cam \in pass_selected
    /\ Len(viewpoint_stack) = NumViews - pos
    /\ {viewpoint_stack[i] : i \in DOMAIN viewpoint_stack}
         = {TrainCameras[i] : i \in DOMAIN TrainCameras} \ pass_selected
    /\ HasCall("getTrainCameras") <=> pos = 1
    /\ CallCount("pop") = 1

C8_Witness ==
  /\ pc = "render"
  /\ executed = 2 * NumViews
  /\ viewpoint_stack = << >>
  /\ pass_selected = 1..NumViews

\* C9 as stated: the save of iteration k is the last step of iteration k, so
\* the saved state is the state with which iteration k+1 begins.
C9_Original ==
  (IterationFinished /\ HasCall("save")) =>
    saved[Len(saved)].version = pop_version

\* C10: the loop terminates; started from stored iteration k it executes
\* exactly N - k iterations (none when k >= N), and once it has ended no
\* population mutation and no optimizer step occurs.
C10_Terminates ==
  /\ [](pc = "for" => <>(pc = "done"))
  /\ [](pc = "done" =>
          executed = IF StoredIter < opt.iterations
                     THEN opt.iterations - StoredIter ELSE 0)
  /\ [][pc = "done" => UNCHANGED << pop_version, calls, grads >>]_vars

C10_Witness ==
  /\ pc = "done"
  /\ checkpoint # None
  /\ executed = MaxRun

\* the cfg_args file get_combined_args looks for does not exist, or
\* model_path is unset
RecordMissing ==
  LET p == args_cmdline["model_path"] IN
    \/ p = None
    \/ p[1] \notin CfgDirs
    \/ cfg_files[p[1]] = None

GcaEnded == gca_pc \in {"raised", "returned"}

\* C11 as stated: get_combined_args never fails because the stored record
\* is missing; the stored configuration is then empty and the result is the
\* command-line values.
C11_Original ==
  (GcaEnded /\ RecordMissing) =>
    /\ gca_pc = "returned"
    /\ gca_error = None
    /\ \A k \in ArgKeys :
         args_cmdline[k] # None =>
           (k \in DOMAIN merged /\ merged[k] = args_cmdline[k][1])

\* C13 as stated: for every key the result holds the command-line value if
\* it was explicitly supplied and the stored value otherwise; a key that was
\* not supplied never overrides its stored value.
C13_Original ==
  gca_pc = "returned" =>
    LET stored == EvalNamespace(cfgfile_string) IN
    \A k \in ArgKeys :
      IF supplied[k] # None
      THEN k \in DOMAIN merged /\ merged[k] = supplied[k][1]
      ELSE k \in DOMAIN stored =>
             (k \in DOMAIN merged /\ merged[k] = stored[k])

\* C13 amended: a supplied value always wins; a key that was not supplied
\* falls back to the stored value only when its parser default is None (a
\* ModelParams key under sentinel=True), and is absent from the result when
\* the stored record lacks it too; a key whose parser default is not None
\* takes that default, stored value or not.
C13_MergePolicy ==
  gca_pc = "returned" =>
    LET stored == EvalNamespace(cfgfile_string) IN
    /\ DOMAIN merged \subseteq ArgKeys
    /\ \A k \in ArgKeys :
         LET noneDefault == k \in {"model_path", "sh_degree"} /\ sentinel IN
         IF supplied[k] # None
         THEN k \in DOMAIN merged /\ merged[k] = supplied[k][1]
         ELSE IF ~noneDefault
         THEN k \in DOMAIN merged
              /\ merged[k] = (CASE k = "model_path" -> ""
                                [] k = "sh_degree"  -> "3"
                                [] k = "debug"      -> "False")
         ELSE IF k \in DOMAIN stored
         THEN k \in DOMAIN merged /\ merged[k] = stored[k]
         ELSE k \notin DOMAIN merged

C13_Witness ==
  /\ gca_pc = "returned"
  /\ sentinel
  /\ supplied["model_path"] = Some("out")
  /\ supplied["sh_degree"] = None
  /\ supplied["debug"] = None
  /\ DOMAIN EvalNamespace(cfgfile_string) = ArgKeys
  /\ merged["sh_degree"] = "1"
  /\ merged["debug"] = "False"

\* C12 as stated: a missing (None or empty) or malformed checkpoint path is
\* treated as no checkpoint: nothing is restored, the run starts at
\* iteration 1 and no error is raised.
C12_Original ==
  (pc # "setup" /\ checkpoint_path \in {None, Some(""), Some("missing.pth")}) =>
    /\ pc # "failed"
    /\ ~restored
    /\ executed > 0 => iteration = executed

\* C12 amended: a missing checkpoint path (None or empty) is treated as no
\* checkpoint: nothing is restored, the run starts at iteration 1 with the
\* newly initialised population and no error is raised; a non-empty path that
\* names no loadable checkpoint file makes the load raise, and the run fails
\* before its first iteration.
C12_CheckpointPath ==
  pc \notin {"setup", "idle"} =>
    /\ checkpoint_path \in {None, Some("")} =>
         /\ pc # "failed"
         /\ ~restored
         /\ first_iter = 1
         /\ executed > 0 => iteration = executed
         /\ executed = 0 => pop_version = 0
    /\ checkpoint_path = Some("missing.pth") =>
         /\ pc = "failed"
         /\ ~restored
         /\ executed = 0

C12_Witness ==
  /\ checkpoint_path = Some("")
  /\ pc = "update_lr"
  /\ executed = 1
  /\ iteration = 1
  /\ ~restored

\* C14 as stated: once a population mutation has left zero primitives the
\* run has failed; no later step of the loop works on an empty population.
C14_Original == empty_population => pc = "failed"

\* C15: after any sequence of clone, split, prune and opacity-reset
\* operations every per-primitive array (position, shape, opacity, mask,
\* colour coefficients, optimizer momentum, gradient statistics) has the same
\* length, and each index denotes the same primitive in all of them.
C15_IndexAlignment ==
  pop_pc = "run" =>
    /\ \A f \in {"shape", "opacity", "mask", "features", "exp_avg",
                 "grad_accum", "denom", "max_radii2D"} :
         /\ Len(convexes[f]) = Len(convexes["xyz"])
         /\ \A i \in 1..Len(convexes["xyz"]) :
              convexes[f][i].id = convexes["xyz"][i].id
    /\ \A i, j \in 1..Len(convexes["xyz"]) :
         i # j => convexes["xyz"][i].id # convexes["xyz"][j].id

C15_Witness ==
  /\ pop_pc = "run"
  /\ pop_steps >= 2
  /\ densify_report # None
  /\ densify_report[1].clones > 0
  /\ densify_report[1].splitParentsRemoved > 0
  /\ densify_report[1].prunedCount > 0
  /\ Len(convexes["xyz"]) > 0
  /\ \E i \in 1..Len(convexes["exp_avg"]) : convexes["exp_avg"][i].v = 0
  /\ \E i \in 1..Len(convexes["exp_avg"]) : convexes["exp_avg"][i].v = 1
  /\ \A i \in 1..Len(convexes["opacity"]) : convexes["opacity"][i].v <= 200000

\* C16: for a densify_and_prune call sizeAfter = sizeBefore + clones +
\* splitChildren - splitParentsRemoved - prunedCount; 100 primitives with 5
\* cloned, 5 split into 2 children each and 3 others pruned give 107.
C16_SizeAccounting ==
  densify_report # None =>
    LET r == densify_report[1] IN
    /\ r.sizeAfter = r.sizeBefore + r.clones + r.splitChildren
                       - r.splitParentsRemoved - r.prunedCount
    /\ (r.sizeBefore = 100 /\ r.clones = 5 /\ r.splitChildren = 10
          /\ r.prunedCount = 3) => r.sizeAfter = 107

C16_Witness ==
  /\ densify_report # None
  /\ densify_report[1] = [sizeBefore |-> 100, clones |-> 5, splitChildren |-> 10,
                          splitParentsRemoved |-> 5, prunedCount |-> 3,
                          sizeAfter |-> 107]
  /\ Len(convexes["xyz"]) = 107

\* the operations whose order C17 is about, as they occurred in the current
\* iteration
OrderedOps ==
  LET sel == SelectSeq(calls, LAMBDA c :
               c.op \in {"update_learning_rate", "render", "backward",
                         "max_radii2D", "add_densification_stats",
                         "densify_and_prune", "reset_opacity",
                         "optimizer.step"})
  IN  [i \in 1..Len(sel) |-> sel[i].op]

GrowthOrder(withStep) ==
  << "update_learning_rate", "render", "backward", "max_radii2D",
     "add_densification_stats" >>
  \o (IF HasCall("densify_and_prune") THEN << "densify_and_prune" >> ELSE << >>)
  \o (IF HasCall("reset_opacity") THEN << "reset_opacity" >> ELSE << >>)
  \o (IF withStep THEN << "optimizer.step" >> ELSE << >>)

\* C17: every growth-phase iteration runs learning-rate update, render and
\* backpropagation, statistics recording (max screen-size update, then
\* add_densification_stats), densify_and_prune if due, reset_opacity if due,
\* and last the optimizer step (which iteration N does not have), in this
\* order; so statistics precede the densification decision, a reset follows
\* the densification of its iteration, and no optimizer step precedes the
\* population mutation.
C17_GrowthOrder ==
  (IterationFinished /\ iteration < opt.densify_until_iter) =>
    OrderedOps = GrowthOrder(iteration < opt.iterations)

C17_Witness ==
  /\ IterationFinished
  /\ iteration < opt.densify_until_iter
  /\ OrderedOps = << "update_learning_rate", "render", "backward",
                     "max_radii2D", "add_densification_stats",
                     "densify_and_prune", "reset_opacity", "optimizer.step" >>

\* C18: statistics recording and densify_and_prune run only at iterations
\* below densify_until_iter (densify_and_prune only above densify_from_iter
\* on a multiple of densification_interval), only_prune only at iterations
\* from densify_until_iter on; the branch changes at most once per run, from
\* growth to post-growth, and once only_prune has run neither
\* densify_and_prune nor statistics recording runs again.
C18_PhaseExclusion ==
  /\ (HasCall("add_densification_stats") \/ HasCall("max_radii2D")
        \/ HasCall("densify_and_prune")) => iteration < opt.densify_until_iter
  /\ HasCall("densify_and_prune") =>
       /\ iteration > opt.densify_from_iter
       /\ iteration % opt.densification_interval = 0
  /\ HasCall("only_prune") => iteration >= opt.densify_until_iter
  /\ phase_changes <= 1
  /\ last_phase = "growth" => phase_changes = 0
  /\ only_pruned =>
       /\ ~HasCall("densify_and_prune")
       /\ ~HasCall("add_densification_stats")
       /\ ~HasCall("max_radii2D")

C18_Witness ==
  /\ pc = "optimizer"
  /\ phase_changes = 1
  /\ only_pruned
  /\ ~HasCall("only_prune")
  /\ iteration > opt.densify_until_iter

\* C19: adapt leaves reset_opacity_until as configured for every (light,
\* outdoor); the outdoor branch writes reset_opacity_unil instead; with
\* light set adapt changes no attribute.
C19_AdaptFrame ==
  [][pc = "setup" =>
       /\ opt'.reset_opacity_until = opt.reset_opacity_until
       /\ light => opt' = opt
       /\ (pc' # "setup" /\ ~light /\ outdoor) => opt'.reset_opacity_unil = 18000]_vars

C19_Witness ==
  /\ pc = "for"
  /\ executed = 0
  /\ ~light
  /\ outdoor
  /\ opt.reset_opacity_unil = 18000
  /\ opt.reset_opacity_until = 10003

\* C20: when reset_opacity_until <= densify_until_iter no post-growth
\* iteration resets opacity, so every reset happens below
\* densify_until_iter; the defaults are such a configuration under every
\* (light, outdoor): reset_opacity_until 9000, densify_until_iter 9000 or
\* 9500 after adapt.
C20_NoPostGrowthReset ==
  /\ (pc \notin {"setup", "idle"}
        /\ opt.reset_opacity_until <= opt.densify_until_iter
        /\ HasCall("reset_opacity")) => iteration < opt.densify_until_iter
  /\ \A l \in BOOLEAN, o \in BOOLEAN :
       LET a == adapt(DefaultOpt, l, o) IN
       /\ a.reset_opacity_until = 9000
       /\ a.densify_until_iter = IF ~l /\ ~o THEN 9500 ELSE 9000
       /\ a.reset_opacity_until <= a.densify_until_iter

C20_Witness ==
  /\ pc = "optimizer"
  /\ opt.reset_opacity_until <= opt.densify_until_iter
  /\ iteration >= opt.densify_until_iter
  /\ iteration % opt.opacity_reset_interval = 0
  /\ ~HasCall("reset_opacity")

====
